---- MODULE Spec2Model ----
(***************************************************************************)
(* Model of src/server.py: the WSGI handler ReviewAnalyzerServer.__call__  *)
(* over the module-level list `reviews`.  One action per kind of request.  *)
(*                                                                         *)
(* Strings stay strings.  A date is one of the strings of DayNames, a time *)
(* of day one of TimeNames; a datetime is the integer                      *)
(* day * TicksPerDay + tick, so that strptime and strftime are real        *)
(* conversions between the two.  A compound score is VADER's value times   *)
(* 10000.  A review is a function from keys to values, as the Python dict  *)
(* is: the key "sentiment" is in its domain only once a GET has set it.    *)
(***************************************************************************)
EXTENDS Integers, Sequences, FiniteSets, TLC

VARIABLES reviews, request, response

vars == <<reviews, request, response>>

----------------------------------------------------------------------------
(* Bound of the model *)

\* number of successful POSTs in one behaviour
MaxPosts == 1

----------------------------------------------------------------------------
(* Values *)

\* Python's None, as returned by .get(key, [None])[0] for a key that is absent
None == "<None>"

ALLOWED_LOCATIONS ==
    { "Albuquerque, New Mexico", "Carlsbad, California", "Chula Vista, California",
      "Colorado Springs, Colorado", "Denver, Colorado", "El Cajon, California",
      "El Paso, Texas", "Escondido, California", "Fresno, California",
      "La Mesa, California", "Las Vegas, Nevada", "Los Angeles, California",
      "Oceanside, California", "Phoenix, Arizona", "Sacramento, California",
      "Salt Lake City, Utah", "San Diego, California", "Tucson, Arizona" }

\* the dates of the model, in order
DayNames == << "2021-01-01", "2021-01-02" >>

TimeNames == << "00:00:00", "18:30:00" >>

TicksPerDay == Len(TimeNames)

Days == DOMAIN DayNames

Ticks == 0 .. (TicksPerDay - 1)

\* bool(x) of an Optional[str]: `if location:`, `not review_body`
Truthy(x) == x # None /\ x # ""

\* parse_qs(s).get(key, [None])[0]: parse_qs drops a field whose value is
\* blank (keep_blank_values is False), so a blank field reads as an absent one
QsGet(raw) == IF raw = "" THEN None ELSE raw

----------------------------------------------------------------------------
(* datetime *)

\* does datetime.strptime(s, '%Y-%m-%d') return (TRUE) or raise ValueError
DateParses(s) == \E d \in DOMAIN DayNames : DayNames[d] = s

\* datetime.strptime(s, '%Y-%m-%d'): midnight of that day
StrptimeDate(s) ==
    (CHOOSE d \in DOMAIN DayNames : DayNames[d] = s) * TicksPerDay

\* datetime.strptime(ts, '%Y-%m-%d %H:%M:%S')
StrptimeTimestamp(ts) ==
    (CHOOSE d \in DOMAIN DayNames : DayNames[d] = ts.date) * TicksPerDay
      + ((CHOOSE t \in DOMAIN TimeNames : TimeNames[t] = ts.time) - 1)

\* dt.strftime('%Y-%m-%d %H:%M:%S')
Strftime(dt) ==
    [date |-> DayNames[dt \div TicksPerDay], time |-> TimeNames[(dt % TicksPerDay) + 1]]

----------------------------------------------------------------------------
(* sentiment *)

\* sia.polarity_scores(text)['compound'] * 10000 for the texts of the model
Compound(text) ==
    CASE text = "Great stay" -> 6249
      [] text = "Awful"      -> -4588
      [] OTHER               -> 0

analyze_sentiment(review_body) == [compound |-> Compound(review_body)]

\* review['sentiment'] = ...: the dict gains (or overwrites) the key
SetSentiment(review) ==
    [k \in (DOMAIN review) \cup {"sentiment"} |->
        IF k = "sentiment" THEN analyze_sentiment(review["ReviewBody"]) ELSE review[k]]

----------------------------------------------------------------------------
(* the collection *)

Review(id, body, loc, day, tick) ==
    [ReviewId |-> id, ReviewBody |-> body, Location |-> loc,
     Timestamp |-> [date |-> DayNames[day], time |-> TimeNames[tick + 1]]]

\* pd.read_csv('data/reviews.csv').to_dict('records')
SeedReviews ==
    << Review(1, "Awful", "San Diego, California", 1, 1),
       Review(2, "Great stay", "Denver, Colorado", 2, 0) >>

SeedCount == Len(SeedReviews)

\* the list 1, 2, .., n: one reference to each dict of a list of n dicts
Refs(n) == [i \in 1 .. n |-> i]

Range(s) == { s[i] : i \in DOMAIN s }

\* [review for review in filtered_reviews if review['Location'] == location]
FilterByLocation(rs, refs, location) ==
    SelectSeq(refs, LAMBDA i : rs[i]["Location"] = location)

\* [review for ... if strptime(review['Timestamp'], ...) >= start_date_dt]
FilterByStart(rs, refs, start_date_dt) ==
    SelectSeq(refs, LAMBDA i : StrptimeTimestamp(rs[i]["Timestamp"]) >= start_date_dt)

\* FilterByEnd with the bound made exclusive
FilterByEndExclusive(rs, refs, end_date_dt) ==
    SelectSeq(refs, LAMBDA i : StrptimeTimestamp(rs[i]["Timestamp"]) < end_date_dt)

\* [review for ... if strptime(review['Timestamp'], ...) <= end_date_dt]
FilterByEnd(rs, refs, end_date_dt) ==
    SelectSeq(refs, LAMBDA i : StrptimeTimestamp(rs[i]["Timestamp"]) <= end_date_dt)

RECURSIVE InsertDescTiesReversed(_, _)
\* InsertDesc that puts x in front of its equals: the order an unstable or a
\* sort-ascending-then-reverse implementation gives
InsertDescTiesReversed(s, x) ==
    IF s = << >> THEN << x >>
    ELSE IF Head(s)["sentiment"].compound > x["sentiment"].compound
         THEN << Head(s) >> \o InsertDescTiesReversed(Tail(s), x)
         ELSE << x >> \o s

RECURSIVE InsertDesc(_, _)
\* put x into the descending sequence s behind every element that is not
\* smaller: equal keys keep their order
InsertDesc(s, x) ==
    IF s = << >> THEN << x >>
    ELSE IF Head(s)["sentiment"].compound >= x["sentiment"].compound
         THEN << Head(s) >> \o InsertDesc(Tail(s), x)
         ELSE << x >> \o s

RECURSIVE SortDesc(_)
\* list.sort(key=compound, reverse=True): stable, descending
SortDesc(s) ==
    IF s = << >> THEN << >>
    ELSE InsertDesc(SortDesc(SubSeq(s, 1, Len(s) - 1)), s[Len(s)])

----------------------------------------------------------------------------
(* responses *)

Respond(status, error, body) == [status |-> status, error |-> error, reviews |-> body]

OK200 == "200 OK"
Created201 == "201 Created"
BadRequest400 == "400 Bad Request"
Internal500 == "500 Internal Server Error"
\* the handler raised: no start_response call, the exception leaves __call__
Raised == "raised"
\* the handler returned None without calling start_response
NoResponse == "no response"

InvalidLocation == "Invalid location"
RequiredFields == "ReviewBody and Location are required fields"

----------------------------------------------------------------------------
(* GET *)

\* GetFailure with the dates parsed before the location is validated
GetFailureDatesFirst(location, start_date, end_date) ==
    IF Truthy(start_date) /\ ~DateParses(start_date) THEN "start_date"
    ELSE IF Truthy(end_date) /\ ~DateParses(end_date) THEN "end_date"
    ELSE IF Truthy(location) /\ location \notin ALLOWED_LOCATIONS THEN "location"
    ELSE "none"

\* which of the GET branch's exits is taken, in the order the code reaches
\* them: the allow-list check of line 66, strptime(start_date) of line 74,
\* strptime(end_date) of line 79
GetFailure(location, start_date, end_date) ==
    IF Truthy(location) /\ location \notin ALLOWED_LOCATIONS THEN "location"
    ELSE IF Truthy(start_date) /\ ~DateParses(start_date) THEN "start_date"
    ELSE IF Truthy(end_date) /\ ~DateParses(end_date) THEN "end_date"
    ELSE "none"

\* StoreAfterGet as if the filters narrowed the global list itself
StoreAfterGetFiltered(rebuilt, analysed, sorted) == sorted

\* the global list after lines 83-87.  filtered_reviews IS the list `reviews`
\* (line 62) unless a filter has rebound the name to a new list: the loop of
\* line 83 writes into the dicts both lists share, the sort of line 87 sorts
\* the list filtered_reviews names
StoreAfterGet(rebuilt, analysed, sorted) == IF rebuilt THEN analysed ELSE sorted

\* The GET branch: the response and the value of the global list after it.
\* A list of references (indices into rs) stands for filtered_reviews.
HandleGet(rs, q) ==
    LET location   == QsGet(q.location)
        start_date == QsGet(q.start_date)
        end_date   == QsGet(q.end_date)
        failure    == GetFailure(location, start_date, end_date)
        f0 == Refs(Len(rs))
        f1 == IF Truthy(location) THEN FilterByLocation(rs, f0, location) ELSE f0
        f2 == IF Truthy(start_date)
              THEN FilterByStart(rs, f1, StrptimeDate(start_date)) ELSE f1
        f3 == IF Truthy(end_date)
              THEN FilterByEnd(rs, f2, StrptimeDate(end_date)) ELSE f2
        rebuilt  == Truthy(location) \/ Truthy(start_date) \/ Truthy(end_date)
        analysed == [i \in DOMAIN rs |->
                        IF i \in Range(f3) THEN SetSentiment(rs[i]) ELSE rs[i]]
        sorted   == SortDesc([k \in DOMAIN f3 |-> analysed[f3[k]]])
    IN  IF failure = "location"
        THEN [resp |-> Respond(BadRequest400, InvalidLocation, << >>), store |-> rs]
        ELSE IF failure # "none"
        THEN [resp |-> Respond(Raised, "ValueError", << >>), store |-> rs]
        ELSE [resp  |-> Respond(OK200, "", sorted),
              store |-> StoreAfterGet(rebuilt, analysed, sorted)]

GetLocations == { None, "", "Denver, Colorado", "Nowhere, Atlantis" }

GetDates == { None, "2021-13-45" } \cup { DayNames[d] : d \in Days }

GetQueries == [location : GetLocations, start_date : GetDates, end_date : GetDates]

Get ==
    \E q \in GetQueries :
        LET out == HandleGet(reviews, q)
        IN  /\ reviews' = out.store
            /\ request' = [method |-> "GET", location |-> q.location,
                           start_date |-> q.start_date, end_date |-> q.end_date]
            /\ response' = out.resp

----------------------------------------------------------------------------
(* POST *)

\* str(uuid.uuid4()): an identifier no review of the collection carries
Uuid4(rs) ==
    1 + (CHOOSE m \in { rs[i]["ReviewId"] : i \in DOMAIN rs } :
            \A i \in DOMAIN rs : rs[i]["ReviewId"] <= m)

\* PostFailure without the allow-list check
PostFailureNoAllowList(review_body, location) ==
    IF ~Truthy(review_body) \/ ~Truthy(location) THEN RequiredFields ELSE ""

\* PostFailure with the allow-list checked before the required fields
PostFailureAllowListFirst(review_body, location) ==
    IF location \notin ALLOWED_LOCATIONS THEN InvalidLocation
    ELSE IF ~Truthy(review_body) \/ ~Truthy(location) THEN RequiredFields
    ELSE ""

\* the validation of lines 105-112, in the order the code makes it
PostFailure(review_body, location) ==
    IF ~Truthy(review_body) \/ ~Truthy(location) THEN RequiredFields
    ELSE IF location \notin ALLOWED_LOCATIONS THEN InvalidLocation
    ELSE ""

\* HandlePost that answers 201 without appending to the list
HandlePostNoAppend(rs, form, now) ==
    LET review_body == QsGet(form.ReviewBody)
        location    == QsGet(form.Location)
        failure     == PostFailure(review_body, location)
        new_review  == [ReviewId |-> Uuid4(rs), ReviewBody |-> review_body,
                        Location |-> location, Timestamp |-> Strftime(now)]
    IN  IF failure # ""
        THEN [resp |-> Respond(BadRequest400, failure, << >>), store |-> rs]
        ELSE [resp |-> Respond(Created201, "", << new_review >>), store |-> rs]

\* HandlePost that appends the record before it validates the fields
HandlePostEagerAppend(rs, form, now) ==
    LET review_body == QsGet(form.ReviewBody)
        location    == QsGet(form.Location)
        failure     == PostFailure(review_body, location)
        new_review  == [ReviewId |-> Uuid4(rs), ReviewBody |-> review_body,
                        Location |-> location, Timestamp |-> Strftime(now)]
    IN  IF failure # ""
        THEN [resp  |-> Respond(BadRequest400, failure, << >>),
              store |-> Append(rs, new_review)]
        ELSE [resp  |-> Respond(Created201, "", << new_review >>),
              store |-> Append(rs, new_review)]

\* lines 100-130: the body has been read and decoded; form is the raw
\* url-encoded fields, now the wall clock
HandlePost(rs, form, now) ==
    LET review_body == QsGet(form.ReviewBody)
        location    == QsGet(form.Location)
        failure     == PostFailure(review_body, location)
        new_review  == [ReviewId |-> Uuid4(rs), ReviewBody |-> review_body,
                        Location |-> location, Timestamp |-> Strftime(now)]
    IN  IF failure # ""
        THEN [resp |-> Respond(BadRequest400, failure, << >>), store |-> rs]
        ELSE [resp  |-> Respond(Created201, "", << new_review >>),
              store |-> Append(rs, new_review)]

PostBodies == { None, "", "Great stay", "Awful" }

PostLocations == { None, "", "Denver, Colorado", "Nowhere, Atlantis" }

PostForms == [ReviewBody : PostBodies, Location : PostLocations]

\* datetime.now(): some time of the last day, the day the server runs
Clock == { Len(DayNames) * TicksPerDay + t : t \in Ticks }

Post ==
    \E form \in PostForms, now \in Clock :
        LET out == HandlePost(reviews, form, now)
        IN  /\ Len(out.store) <= SeedCount + MaxPosts
            /\ reviews' = out.store
            /\ request' = [method |-> "POST", readable |-> TRUE,
                           ReviewBody |-> form.ReviewBody, Location |-> form.Location]
            /\ response' = out.resp

\* lines 98-99 raise inside the try block: CONTENT_LENGTH is not an integer
\* (ValueError), or the body is not UTF-8 (UnicodeDecodeError).  Line 131
\* catches it.
PostFaults == { "ValueError", "UnicodeDecodeError" }

PostUnreadable ==
    \E fault \in PostFaults :
        /\ reviews' = reviews
        /\ request' = [method |-> "POST", readable |-> FALSE, fault |-> fault]
        /\ response' = Respond(Internal500, fault, << >>)

----------------------------------------------------------------------------
(* any other method: neither `if` of __call__ is taken, and it returns None *)

OtherMethods == { "PUT", "DELETE" }

Other ==
    \E m \in OtherMethods :
        /\ reviews' = reviews
        /\ request' = [method |-> m]
        /\ response' = Respond(NoResponse, "", << >>)

----------------------------------------------------------------------------

Init ==
    /\ reviews = SeedReviews
    /\ request = [method |-> "-"]
    /\ response = Respond("-", "", << >>)

Next == Get \/ Post \/ PostUnreadable \/ Other

Spec == Init /\ [][Next]_vars

----------------------------------------------------------------------------
(* Vocabulary of the properties *)

IsGet == request.method = "GET"

IsPost == request.method = "POST"

\* a POST whose body was read and decoded, so that it has form fields
IsFormPost == IsPost /\ request.readable

\* the query of the GET in `request`
RequestQuery ==
    [location |-> request.location, start_date |-> request.start_date,
     end_date |-> request.end_date]

\* a record without its sentiment key
Strip(r) == [k \in (DOMAIN r) \ {"sentiment"} |-> r[k]]

\* seed records carry the identifiers 1..SeedCount, and Uuid4 counts on from
\* there: identifiers order the records by the time they entered
Posted(r) == r["ReviewId"] > SeedCount

CompoundOf(r) == r["sentiment"].compound

\* the store's order differs from the order of entry
Reordered ==
    \E k \in 1 .. (Len(reviews) - 1) : reviews[k]["ReviewId"] > reviews[k + 1]["ReviewId"]

RECURSIVE ById(_)
ById(S) ==
    IF S = {} THEN << >>
    ELSE LET m == CHOOSE r \in S : \A t \in S : r["ReviewId"] <= t["ReviewId"]
         IN  << m >> \o ById(S \ {m})

\* the collection as it entered: in order of entry, no sentiment stored
Canon(rs) == ById({ Strip(rs[i]) : i \in DOMAIN rs })

AnswerOf(resp) ==
    [status |-> resp.status, error |-> resp.error, records |-> Range(resp.reviews)]

ValidDates == Range(DayNames)

Midnight == TimeNames[1]

----------------------------------------------------------------------------
(* C1 *)

\* C1: every GET answered 200 returns its records in non-increasing order of
\* compound score, and records of equal score in the order they entered the
\* collection (seed order, then order of POST), in every reachable state.
C1_SortedStable ==
    (IsGet /\ response.status = OK200) =>
        \A i, j \in DOMAIN response.reviews :
            i < j =>
                /\ CompoundOf(response.reviews[i]) >= CompoundOf(response.reviews[j])
                /\ CompoundOf(response.reviews[i]) = CompoundOf(response.reviews[j])
                     => response.reviews[i]["ReviewId"] < response.reviews[j]["ReviewId"]

\* a filtered GET's 200 answer holding a tie between an earlier record and a
\* posted one, and two records of different scores, given after an unfiltered
\* GET had reordered the store itself
C1_Witness ==
    /\ IsGet /\ response.status = OK200
    /\ Truthy(request.start_date)
    /\ Reordered
    /\ \E i, j \in DOMAIN response.reviews :
          /\ i < j
          /\ CompoundOf(response.reviews[i]) = CompoundOf(response.reviews[j])
          /\ Posted(response.reviews[j])
    /\ \E i, j \in DOMAIN response.reviews :
          CompoundOf(response.reviews[i]) > CompoundOf(response.reviews[j])

----------------------------------------------------------------------------
(* C2 *)

C2_Pre ==
    /\ IsGet
    /\ request.location \in {None} \cup ALLOWED_LOCATIONS
    /\ request.start_date \in {None} \cup ValidDates
    /\ request.end_date \in {None} \cup ValidDates
    /\ request.start_date # None \/ request.end_date # None

C2_Matches(r) ==
    /\ request.location # None => r["Location"] = request.location
    /\ request.start_date # None =>
          StrptimeTimestamp(r["Timestamp"]) >= StrptimeDate(request.start_date)
    /\ request.end_date # None =>
          StrptimeTimestamp(r["Timestamp"]) <= StrptimeDate(request.end_date)

C2_Expected == { i \in DOMAIN reviews : C2_Matches(reviews[i]) }

\* C2: a GET with an absent or allowed location and valid start_date and/or
\* end_date is answered 200 with exactly the stored records of that location
\* stamped at or after start_date 00:00:00 and at or before end_date
\* 00:00:00: each once, none else; a record of the end_date day stamped after
\* midnight is not returned.
C2_DateFilterExact ==
    C2_Pre =>
        /\ response.status = OK200
        /\ { Strip(response.reviews[k]) : k \in DOMAIN response.reviews }
             = { Strip(reviews[i]) : i \in C2_Expected }
        /\ Len(response.reviews) = Cardinality(C2_Expected)
        /\ \A k \in DOMAIN response.reviews :
              (request.end_date # None
                 /\ response.reviews[k]["Timestamp"].date = request.end_date)
              => response.reviews[k]["Timestamp"].time = Midnight

\* both bounds given; the store holds a record of the asked location stamped
\* on the end_date day after midnight and one stamped at its midnight, and
\* the answer is not empty
C2_Witness ==
    /\ C2_Pre /\ response.status = OK200
    /\ request.start_date # None /\ request.end_date # None
    /\ request.location # None
    /\ \E i, j \in DOMAIN reviews :
          /\ reviews[i]["Location"] = request.location
          /\ reviews[i]["Timestamp"].date = request.end_date
          /\ reviews[i]["Timestamp"].time # Midnight
          /\ reviews[j]["Location"] = request.location
          /\ reviews[j]["Timestamp"].date = request.end_date
          /\ reviews[j]["Timestamp"].time = Midnight
    /\ Len(response.reviews) > 0

----------------------------------------------------------------------------
(* C3 *)

C3_PostPart ==
    (IsFormPost /\ Truthy(request.ReviewBody)
        /\ request.Location \in ALLOWED_LOCATIONS) =>
        /\ response.status = Created201
        /\ Len(response.reviews) = 1
        /\ LET rec == response.reviews[1]
           IN  /\ DOMAIN rec = {"ReviewId", "ReviewBody", "Location", "Timestamp"}
               /\ rec["ReviewBody"] = request.ReviewBody
               /\ rec["Location"] = request.Location
               /\ rec["Timestamp"].date \in ValidDates
               /\ rec["Timestamp"].time \in Range(TimeNames)
               /\ { i \in DOMAIN reviews : reviews[i]["ReviewId"] = rec["ReviewId"] }
                    = { Len(reviews) }
               /\ Strip(reviews[Len(reviews)]) = rec

C3_GetPart ==
    (IsGet /\ request.location \in ALLOWED_LOCATIONS
        /\ request.start_date = None /\ request.end_date = None) =>
        /\ response.status = OK200
        /\ \A i \in DOMAIN reviews :
              (Posted(reviews[i]) /\ reviews[i]["Location"] = request.location) =>
                  \E k \in DOMAIN response.reviews :
                      /\ Strip(response.reviews[k]) = Strip(reviews[i])
                      /\ response.reviews[k]["sentiment"]
                           = analyze_sentiment(reviews[i]["ReviewBody"])

\* C3: a POST with a non-empty ReviewBody and an allowed Location is answered
\* 201 with a record of a new ReviewId, that ReviewBody and Location and a
\* timestamp, and the record is in the collection; in every state reached
\* afterwards, a GET filtered to a location alone is answered 200 with every
\* record posted for that location, each with its computed sentiment.
C3_RoundTrip == C3_PostPart /\ C3_GetPart

\* a GET by location alone answered with a posted record and an earlier one,
\* the store having been reordered since the POST (the posted record is no
\* longer its last)
C3_Witness ==
    /\ IsGet /\ request.location \in ALLOWED_LOCATIONS
    /\ request.start_date = None /\ request.end_date = None
    /\ Reordered
    /\ \E k \in DOMAIN response.reviews : Posted(response.reviews[k])
    /\ \E k \in DOMAIN response.reviews : ~Posted(response.reviews[k])
    /\ ~Posted(reviews[Len(reviews)])

----------------------------------------------------------------------------
(* C4 *)

\* C4: the collection changes only by appends: a GET leaves it as it was
\* (same records, same fields, same order, no sentiment stored), and a POST
\* either leaves it as it was or, answered 201, adds the new record at the end.
C4_AppendOnly ==
    [][ /\ request'.method = "GET" => reviews' = reviews
        /\ request'.method = "POST" =>
              \/ reviews' = reviews
              \/ /\ response'.status = Created201
                 /\ reviews' = Append(reviews, response'.reviews[1]) ]_vars

----------------------------------------------------------------------------
(* C5 *)

C5_State ==
    /\ \A i \in DOMAIN reviews :
          Posted(reviews[i]) => reviews[i]["Location"] \in ALLOWED_LOCATIONS
    /\ (IsFormPost /\ request.Location \notin ALLOWED_LOCATIONS) =>
          response.status = BadRequest400

C5_Step ==
    (request'.method = "POST" /\ request'.readable
        /\ request'.Location \notin ALLOWED_LOCATIONS) => reviews' = reviews

\* C5: every record that entered through POST has a Location of the
\* allow-list; a POST whose Location is not in the allow-list is answered 400
\* whatever its ReviewBody, and appends nothing.
C5_PostedLocationsAllowed == []C5_State /\ [][C5_Step]_vars

\* a POST with a ReviewBody and a Location outside the allow-list, refused,
\* the collection already holding a posted record
C5_Witness ==
    /\ IsFormPost /\ Truthy(request.ReviewBody)
    /\ request.Location = "Nowhere, Atlantis"
    /\ response.status = BadRequest400
    /\ \E i \in DOMAIN reviews : Posted(reviews[i])

----------------------------------------------------------------------------
(* C6 *)

C6_Rejected ==
    /\ response.status = BadRequest400
    /\ response.error = InvalidLocation
    /\ response.reviews = << >>

\* C6 as stated: every GET whose location parameter is given and is not in
\* the allow-list is answered 400 "Invalid location", whatever the dates.
C6_Original ==
    (IsGet /\ request.location # None /\ request.location \notin ALLOWED_LOCATIONS)
        => C6_Rejected

\* C6, amended: every GET whose location parameter is given, is not empty and
\* is not in the allow-list is answered 400 "Invalid location" and returns no
\* reviews, whatever start_date and end_date are.
C6_InvalidLocationRejected ==
    (IsGet /\ request.location # None /\ request.location # ""
        /\ request.location \notin ALLOWED_LOCATIONS)
        => C6_Rejected

\* a GET with a location outside the allow-list and a start_date that is no date
C6_Witness ==
    /\ IsGet /\ request.location = "Nowhere, Atlantis"
    /\ request.start_date \notin {None} \cup ValidDates
    /\ response.status = BadRequest400

----------------------------------------------------------------------------
(* C7 *)

\* C7: a POST whose form lacks ReviewBody or Location, or has it empty, is
\* answered 400 "ReviewBody and Location are required fields"; the check comes
\* before the allow-list check, so an empty ReviewBody with a Location outside
\* the allow-list gets this error and not "Invalid location".
C7_RequiredFieldsFirst ==
    (IsFormPost /\ (~Truthy(request.ReviewBody) \/ ~Truthy(request.Location))) =>
        /\ response.status = BadRequest400
        /\ response.error = RequiredFields

\* an empty ReviewBody with a Location outside the allow-list
C7_Witness ==
    /\ IsFormPost /\ request.ReviewBody = ""
    /\ request.Location = "Nowhere, Atlantis"
    /\ response.error = RequiredFields

----------------------------------------------------------------------------
(* C8 *)

\* the answer of a GET is the answer the same GET gets from the collection as
\* it entered, whatever GETs have come before
C8_State ==
    IsGet => AnswerOf(response) = AnswerOf(HandleGet(Canon(reviews), RequestQuery).resp)

\* a GET does not change the collection as it entered
C8_Step == request'.method = "GET" => Canon(reviews') = Canon(reviews)

\* C8: two GETs with the same parameters and no POST between them (any GETs
\* may come between) return the same set of records: every GET returns the
\* set its parameters select from the records that entered the collection,
\* and no GET changes which records those are.
C8_ReadIdempotent == []C8_State /\ [][C8_Step]_vars

\* a filtered GET answered with two records from a store that earlier GETs
\* have reordered and written sentiment into
C8_Witness ==
    /\ IsGet /\ response.status = OK200
    /\ Truthy(request.location)
    /\ Reordered
    /\ \E i \in DOMAIN reviews : "sentiment" \in DOMAIN reviews[i]
    /\ Len(response.reviews) >= 2
    /\ Len(response.reviews) < Len(reviews)

----------------------------------------------------------------------------
(* C9 *)

\* C9: a POST adds exactly one record if and only if it is answered 201, and
\* then leaves the records before it as they were; a POST answered 400 or 500,
\* the 500 of an exception raised in the try block included, leaves the
\* collection exactly as it was.
C9_PostAllOrNothing ==
    [][ request'.method = "POST" =>
          /\ response'.status \in {Created201, BadRequest400, Internal500}
          /\ (response'.status = Created201) <=> (Len(reviews') = Len(reviews) + 1)
          /\ response'.status = Created201 =>
                SubSeq(reviews', 1, Len(reviews)) = reviews
          /\ response'.status \in {BadRequest400, Internal500} => reviews' = reviews
      ]_vars

\* a POST answered 500 from the except clause, the collection holding a
\* posted record
C9_Witness ==
    /\ IsPost /\ ~request.readable
    /\ response.status = Internal500
    /\ \E i \in DOMAIN reviews : Posted(reviews[i])

----------------------------------------------------------------------------
(* C10 *)

\* C10: every request ends with a documented response: a GET with 200 or 400,
\* a POST with 201, 400 or 500; the handler never raises and never returns
\* without a response.
C10_AlwaysResponds ==
    /\ IsGet => response.status \in {OK200, BadRequest400}
    /\ IsPost => response.status \in {Created201, BadRequest400, Internal500}
    /\ request.method # "-" => response.status \notin {Raised, NoResponse}

====
